---- MODULE Spec2Model ----
(***************************************************************************)
(* Model of gokeyless.                                                     *)
(*                                                                         *)
(*   server.conn   (src/server/conn.go:24-198): one server-side connection *)
(*                 used by one reader (GetJob), several workers            *)
(*                 (SubmitResult) and several callers of Destroy.          *)
(*   client.Client (src/server/conn.go:217-343): the connection cache      *)
(*                 (Dial) and the SKI registry (registerSKI, DialAny).     *)
(*                                                                         *)
(* Spec is the connection, ClientSpec the client.                          *)
(***************************************************************************)
EXTENDS Integers, Sequences, FiniteSets

\* ------------------------------------------------------------------ bounds
MaxGetJob == 2        \* GetJob calls made by the reader
MaxReg == 2           \* servers registered for one SKI
MaxConns == 2         \* connections the client establishes

\* ------------------------------------------------------- program constants
MajorVers == 1
MinorVers == 0

IDs == {1, 2}         \* correlation IDs the peer sends
Opcodes == {3, 4}     \* opcodes the peer sends

\* The goroutines that use one connection: its reader, two workers, and one
\* shutdown goroutine (the reader calls Destroy too, on an idle timeout).
Reader == "reader"
Writers == {"worker1", "worker2"}
Destroyers == {"shutdown"}
Threads == {Reader} \cup Writers \cup Destroyers

\* The requests the peer sends: one of each opcode, each under its own
\* correlation ID (a request may be sent again).
Requests == {q \in [id : IDs, opcode : Opcodes] : q.opcode = q.id + 2}
NoPkt == [id |-> 0, opcode |-> 0]
NoEvent == [id |-> 0, opcode |-> 0]

VARIABLES
  \* ---- server.conn
  closed,         \* conn.closed
  serverClosing,  \* conn.serverClosing
  sock,           \* conn.conn, the transport: "open" or "closed"
  wire,           \* bytes the transport has accepted from Write, in order
  stats,          \* conn.stats: reads, writes, lastRead, lastWrite
  logs,           \* lines emitted by LogConnErr, counted per kind
  connFailures,   \* the failure metric incremented by logConnFailure
  pc,             \* position of each goroutine
  err,            \* the error (or "nil") the goroutine's current call holds
  ok,             \* what the goroutine's last GetJob / SubmitResult returned
  pkt,            \* the packet the reader has read in the current GetJob
  res,            \* the response each worker passes to SubmitResult
  jobs,           \* requests returned by GetJob and not yet taken by a worker
  \* ---- history of the connection
  getJobCalls,    \* GetJob calls made so far
  destroyCalls,   \* Destroy calls made so far
  destroyRets,    \* Destroy calls that have returned
  destroyWins,    \* Destroy calls that won the compare-and-swap
  callDestroys,   \* Destroy calls made by the reader's current GetJob
  deadAtCall,     \* per worker: IsAlive() was false when SubmitResult was called
  received,       \* per request: how many times GetJob has returned it
  written         \* responses whose Write succeeded, in the order of the writes

connVars == <<closed, serverClosing, sock, wire, stats, logs, connFailures,
              pc, err, ok, pkt, res, jobs, getJobCalls, destroyCalls,
              destroyRets, destroyWins, callDestroys, deadAtCall, received,
              written>>

VARIABLES
  \* ---- client.Client
  Config,         \* Client.Config is set (NewClient sets it)
  conns,          \* Client.conns: server -> connection, 0 for no entry
  allServers,     \* Client.allServers: SKI -> slice of servers
  isOpen,         \* IsOpen of every gokeyless.Conn created so far
  reachable,      \* the servers a tls.Dial reaches at the moment
  cpc,            \* "idle", or "dialany" inside DialAny's dial loop
  daSki,          \* DialAny's argument, "" outside its dial loop
  daServers,      \* DialAny's local slice `servers`, <<>> outside the loop
  ret,            \* what the last call of the client returned
  \* ---- history of the client
  regBefore,      \* the registry's list for daSki when DialAny was called
  daTried,        \* Dial calls made by the last DialAny call so far
  registered      \* SKI -> the servers ever registered for it

clientVars == <<Config, conns, allServers, isOpen, reachable, cpc, daSki,
                daServers, ret, regBefore, daTried, registered>>

vars == <<connVars, clientVars>>

\* ----------------------------------------------------------- packet codec
\* resp.op.Bytes(): the declared length of the operation payload.
OpBytes(op) == Len(op.payload)

\* A header that takes its ID from the connection's last read.
HeaderIDLastRead(resp) == stats.lastRead.id

\* The ID field of the header SubmitResult builds.
HeaderID(resp) == resp.id

\* protocol.Packet built by SubmitResult.
RespPacket(resp) ==
  [MajorVers |-> MajorVers, MinorVers |-> MinorVers,
   Length |-> OpBytes(resp.op), ID |-> HeaderID(resp), Operation |-> resp.op]

\* pkt.MarshalBinary(): header, opcode, payload.
MarshalBinary(p) ==
  <<p.MajorVers, p.MinorVers, p.Length, p.ID, p.Operation.opcode>>
    \o p.Operation.payload

HeaderLen == 5

\* pkt.ReadFrom applied to the whole stream: the frames of a byte sequence,
\* and the bytes left over when the stream does not end on a frame boundary.
RECURSIVE ReadFrames(_)
ReadFrames(bytes) ==
  IF bytes = <<>> THEN [frames |-> <<>>, rest |-> <<>>]
  ELSE IF Len(bytes) < HeaderLen \/ Len(bytes) < HeaderLen + bytes[3]
  THEN [frames |-> <<>>, rest |-> bytes]
  ELSE LET n == HeaderLen + bytes[3]
           f == [MajorVers |-> bytes[1], MinorVers |-> bytes[2],
                 Length |-> bytes[3], ID |-> bytes[4],
                 Operation |-> [opcode |-> bytes[5],
                                payload |-> SubSeq(bytes, HeaderLen + 1, n)]]
           t == ReadFrames(SubSeq(bytes, n + 1, Len(bytes)))
       IN  [frames |-> <<f>> \o t.frames, rest |-> t.rest]

\* ---------------------------------------------------------------- worker
\* The payload a worker computes for a request.
Execute(opcode) == IF opcode = 3 THEN <<>> ELSE <<opcode, opcode>>

\* The response a worker builds for a job.
Response(job) ==
  [id |-> job.id,
   op |-> [opcode |-> job.opcode, payload |-> Execute(job.opcode)],
   reqOpcode |-> job.opcode]

NoRes == [id |-> 0, op |-> [opcode |-> 0, payload |-> <<>>], reqOpcode |-> 0]

\* ------------------------------------------------------------------ conn
IsAlive == closed = 0

\* LogConnErr without the test of c.serverClosing: no error is dropped.
LogConnErrNoTest(e) == FALSE

\* LogConnErr testing c.closed in place of c.serverClosing.
LogConnErrTestsClosed(e) == e # "nil" /\ closed = 1

\* The test at the head of LogConnErr(e), with its atomic load of
\* c.serverClosing: TRUE when the call returns without logging.
LogConnErrReturns(e) == e # "nil" /\ serverClosing = 1

ConnInit ==
  /\ closed = 0
  /\ serverClosing = 0
  /\ sock = "open"
  /\ wire = <<>>
  /\ stats = [reads |-> 0, writes |-> 0, lastRead |-> NoEvent,
              lastWrite |-> NoEvent]
  /\ logs = [closing |-> 0, eof |-> 0, error |-> 0]
  /\ connFailures = 0
  /\ pc = [t \in Threads |-> "idle"]
  /\ err = [t \in Threads |-> "nil"]
  /\ ok = [t \in Threads |-> "none"]
  /\ pkt = NoPkt
  /\ res = [w \in Writers |-> NoRes]
  /\ jobs = [q \in Requests |-> 0]
  /\ getJobCalls = 0
  /\ destroyCalls = 0
  /\ destroyRets = 0
  /\ destroyWins = 0
  /\ callDestroys = 0
  /\ deadAtCall = [w \in Writers |-> FALSE]
  /\ received = [q \in Requests |-> 0]
  /\ written = <<>>

\* The steps shared by every fatal read, write or deadline error:
\*   c.LogConnErr(err); c.conn.Close(); atomic.StoreUint32(&c.closed, 1);
\*   return false
\* LogConnErr takes no lock: its load of c.serverClosing, the count of the
\* failure and the log line are three steps, and other goroutines run in
\* between.
\* c.LogConnErr(err) up to the test of c.serverClosing
FailLog(t) ==
  /\ pc[t] = "fail_log"
  /\ pc' = [pc EXCEPT ![t] = IF LogConnErrReturns(err[t])
                             THEN "fail_close"
                             ELSE "fail_emit"]
  /\ UNCHANGED <<closed, serverClosing, sock, wire, stats, logs, connFailures,
                 err, ok, pkt, res, jobs, getJobCalls, destroyCalls,
                 destroyRets, destroyWins, callDestroys, deadAtCall, received,
                 written>>
  /\ UNCHANGED clientVars

\* the branch on err: "closed by client" for io.EOF, logConnFailure() for
\* any other error
FailEmit(t) ==
  /\ pc[t] = "fail_emit"
  /\ IF err[t] = "eof"
     THEN /\ logs' = [logs EXCEPT !.eof = @ + 1]
          /\ pc' = [pc EXCEPT ![t] = "fail_close"]
          /\ UNCHANGED connFailures
     ELSE /\ connFailures' = connFailures + 1
          /\ pc' = [pc EXCEPT ![t] = "fail_line"]
          /\ UNCHANGED logs
  /\ UNCHANGED <<closed, serverClosing, sock, wire, stats, err, ok, pkt, res,
                 jobs, getJobCalls, destroyCalls, destroyRets, destroyWins,
                 callDestroys, deadAtCall, received, written>>
  /\ UNCHANGED clientVars

\* log.Errorf("connection %v: encountered error: ...")
FailLine(t) ==
  /\ pc[t] = "fail_line"
  /\ logs' = [logs EXCEPT !.error = @ + 1]
  /\ pc' = [pc EXCEPT ![t] = "fail_close"]
  /\ UNCHANGED <<closed, serverClosing, sock, wire, stats, connFailures, err,
                 ok, pkt, res, jobs, getJobCalls, destroyCalls, destroyRets,
                 destroyWins, callDestroys, deadAtCall, received, written>>
  /\ UNCHANGED clientVars

\* The error path without c.conn.Close().
FailCloseSkipped(t) ==
  /\ pc[t] = "fail_close"
  /\ pc' = [pc EXCEPT ![t] = "fail_store"]
  /\ UNCHANGED <<closed, serverClosing, sock, wire, stats, logs, connFailures,
                 err, ok, pkt, res, jobs, getJobCalls, destroyCalls,
                 destroyRets, destroyWins, callDestroys, deadAtCall, received,
                 written>>
  /\ UNCHANGED clientVars

FailClose(t) ==
  /\ pc[t] = "fail_close"
  /\ sock' = "closed"
  /\ pc' = [pc EXCEPT ![t] = "fail_store"]
  /\ UNCHANGED <<closed, serverClosing, wire, stats, logs, connFailures, err,
                 ok, pkt, res, jobs, getJobCalls, destroyCalls, destroyRets,
                 destroyWins, callDestroys, deadAtCall, received, written>>
  /\ UNCHANGED clientVars

FailStore(t) ==
  /\ pc[t] = "fail_store"
  /\ closed' = 1
  /\ ok' = [ok EXCEPT ![t] = "false"]
  /\ pc' = [pc EXCEPT ![t] = "idle"]
  /\ UNCHANGED <<serverClosing, sock, wire, stats, logs, connFailures, err,
                 pkt, res, jobs, getJobCalls, destroyCalls, destroyRets,
                 destroyWins, callDestroys, deadAtCall, received, written>>
  /\ UNCHANGED clientVars

\* ---- Destroy, called by a shutdown goroutine or by GetJob on a timeout
\* Where a goroutine goes when its Destroy call returns: GetJob returns
\* (nil, nil, false), a shutdown goroutine is finished.
AfterDestroy(t) == IF t = Reader THEN "idle" ELSE "done"

\* Destroy with a plain store in place of the compare-and-swap: every call
\* goes on to log and close.
DestroyStoreFlag(t) ==
  /\ pc[t] = "destroy_cas"
  /\ serverClosing' = 1
  /\ destroyWins' = destroyWins + 1
  /\ pc' = [pc EXCEPT ![t] = "destroy_log"]
  /\ UNCHANGED <<closed, sock, wire, stats, logs, connFailures, err, pkt, res,
                 jobs, getJobCalls, destroyCalls, callDestroys, deadAtCall,
                 received, written, destroyRets, ok>>
  /\ UNCHANGED clientVars

\* Destroy whose losing call clears the flag it found set.
DestroyCASRelease(t) ==
  /\ pc[t] = "destroy_cas"
  /\ IF serverClosing = 0
     THEN /\ serverClosing' = 1
          /\ destroyWins' = destroyWins + 1
          /\ pc' = [pc EXCEPT ![t] = "destroy_log"]
          /\ UNCHANGED <<destroyRets, ok>>
     ELSE /\ serverClosing' = 0
          /\ pc' = [pc EXCEPT ![t] = AfterDestroy(t)]
          /\ destroyRets' = destroyRets + 1
          /\ ok' = [ok EXCEPT ![t] = IF t = Reader THEN "false" ELSE @]
          /\ UNCHANGED destroyWins
  /\ UNCHANGED <<closed, sock, wire, stats, logs, connFailures, err, pkt, res,
                 jobs, getJobCalls, destroyCalls, callDestroys, deadAtCall,
                 received, written>>
  /\ UNCHANGED clientVars

\* closing := !atomic.CompareAndSwapUint32(&c.serverClosing, 0, 1)
\* and the return of a call that finds the flag already set
DestroyCAS(t) ==
  /\ pc[t] = "destroy_cas"
  /\ IF serverClosing = 0
     THEN /\ serverClosing' = 1
          /\ destroyWins' = destroyWins + 1
          /\ pc' = [pc EXCEPT ![t] = "destroy_log"]
          /\ UNCHANGED <<destroyRets, ok>>
     ELSE /\ pc' = [pc EXCEPT ![t] = AfterDestroy(t)]
          /\ destroyRets' = destroyRets + 1
          /\ ok' = [ok EXCEPT ![t] = IF t = Reader THEN "false" ELSE @]
          /\ UNCHANGED <<serverClosing, destroyWins>>
  /\ UNCHANGED <<closed, sock, wire, stats, logs, connFailures, err, pkt, res,
                 jobs, getJobCalls, destroyCalls, callDestroys, deadAtCall,
                 received, written>>
  /\ UNCHANGED clientVars

\* A shutdown goroutine calls Destroy.
DestroyCall(d) ==
  /\ d \in Destroyers
  /\ pc[d] = "idle"
  /\ pc' = [pc EXCEPT ![d] = "destroy_cas"]
  /\ destroyCalls' = destroyCalls + 1
  /\ UNCHANGED <<closed, serverClosing, sock, wire, stats, logs, connFailures,
                 err, ok, pkt, res, jobs, getJobCalls, destroyRets,
                 destroyWins, callDestroys, deadAtCall, received, written>>
  /\ UNCHANGED clientVars

\* c.LogConnErr(nil): with a nil error the test of c.serverClosing is not
\* made and "server closing connection" is logged
DestroyLog(t) ==
  /\ pc[t] = "destroy_log"
  /\ ~LogConnErrReturns("nil")
  /\ logs' = [logs EXCEPT !.closing = @ + 1]
  /\ UNCHANGED connFailures
  /\ pc' = [pc EXCEPT ![t] = "destroy_close"]
  /\ UNCHANGED <<closed, serverClosing, sock, wire, stats, err, ok, pkt, res,
                 jobs, getJobCalls, destroyCalls, destroyRets, destroyWins,
                 callDestroys, deadAtCall, received, written>>
  /\ UNCHANGED clientVars

\* Destroy without c.conn.Close().
DestroyCloseSkipped(t) ==
  /\ pc[t] = "destroy_close"
  /\ pc' = [pc EXCEPT ![t] = "destroy_store"]
  /\ UNCHANGED <<closed, serverClosing, sock, wire, stats, logs, connFailures,
                 err, ok, pkt, res, jobs, getJobCalls, destroyCalls,
                 destroyRets, destroyWins, callDestroys, deadAtCall, received,
                 written>>
  /\ UNCHANGED clientVars

\* c.conn.Close()
DestroyClose(t) ==
  /\ pc[t] = "destroy_close"
  /\ sock' = "closed"
  /\ pc' = [pc EXCEPT ![t] = "destroy_store"]
  /\ UNCHANGED <<closed, serverClosing, wire, stats, logs, connFailures, err,
                 ok, pkt, res, jobs, getJobCalls, destroyCalls, destroyRets,
                 destroyWins, callDestroys, deadAtCall, received, written>>
  /\ UNCHANGED clientVars

\* atomic.StoreUint32(&c.closed, 1), and the return
DestroyStore(t) ==
  /\ pc[t] = "destroy_store"
  /\ closed' = 1
  /\ pc' = [pc EXCEPT ![t] = AfterDestroy(t)]
  /\ destroyRets' = destroyRets + 1
  /\ ok' = [ok EXCEPT ![t] = IF t = Reader THEN "false" ELSE @]
  /\ UNCHANGED <<serverClosing, sock, wire, stats, logs, connFailures, err,
                 pkt, res, jobs, getJobCalls, destroyCalls, destroyWins,
                 callDestroys, deadAtCall, received, written>>
  /\ UNCHANGED clientVars

\* ---- GetJob, called by the connection's one reader
\* The call, and err := c.conn.SetReadDeadline(...), which fails on a closed
\* transport.
GetJobCall ==
  /\ pc[Reader] = "idle"
  /\ getJobCalls < MaxGetJob
  /\ getJobCalls' = getJobCalls + 1
  /\ callDestroys' = 0
  /\ ok' = [ok EXCEPT ![Reader] = "none"]
  /\ IF sock = "closed"
     THEN /\ err' = [err EXCEPT ![Reader] = "closed"]
          /\ pc' = [pc EXCEPT ![Reader] = "fail_log"]
     ELSE /\ err' = [err EXCEPT ![Reader] = "nil"]
          /\ pc' = [pc EXCEPT ![Reader] = "getjob_read"]
  /\ UNCHANGED <<closed, serverClosing, sock, wire, stats, logs, connFailures,
                 pkt, res, jobs, destroyCalls, destroyRets, destroyWins,
                 deadAtCall, received, written>>
  /\ UNCHANGED clientVars

\* What pkt.ReadFrom(c.conn) can return: on a closed transport the "closed"
\* error (not a timeout); on an open one a packet, the deadline's timeout,
\* the peer's EOF, or another transport or parse error.
ReadOutcomes ==
  IF sock = "closed" THEN {"closed"} ELSE {"nil", "timeout", "eof", "error"}

\* GetJob without the timeout branch: a timeout is handled as any error.
GetJobReadNoTimeout ==
  /\ pc[Reader] = "getjob_read"
  /\ \E e \in ReadOutcomes :
       /\ err' = [err EXCEPT ![Reader] = e]
       /\ IF e = "nil"
          THEN /\ \E q \in Requests : pkt' = q
               /\ pc' = [pc EXCEPT ![Reader] = "getjob_stats"]
          ELSE /\ pc' = [pc EXCEPT ![Reader] = "fail_log"]
               /\ UNCHANGED pkt
  /\ UNCHANGED <<closed, serverClosing, sock, wire, stats, logs, connFailures,
                 ok, res, jobs, getJobCalls, destroyRets, destroyWins,
                 deadAtCall, received, written, destroyCalls, callDestroys>>
  /\ UNCHANGED clientVars

\* _, err = pkt.ReadFrom(c.conn) and the branch on err
GetJobRead ==
  /\ pc[Reader] = "getjob_read"
  /\ \E e \in ReadOutcomes :
       /\ err' = [err EXCEPT ![Reader] = e]
       /\ IF e = "nil"
          THEN /\ \E q \in Requests : pkt' = q
               /\ pc' = [pc EXCEPT ![Reader] = "getjob_stats"]
               /\ UNCHANGED <<destroyCalls, callDestroys>>
          ELSE IF e = "timeout"
          THEN /\ pc' = [pc EXCEPT ![Reader] = "destroy_cas"]
               /\ destroyCalls' = destroyCalls + 1
               /\ callDestroys' = callDestroys + 1
               /\ UNCHANGED pkt
          ELSE /\ pc' = [pc EXCEPT ![Reader] = "fail_log"]
               /\ UNCHANGED <<pkt, destroyCalls, callDestroys>>
  /\ UNCHANGED <<closed, serverClosing, sock, wire, stats, logs, connFailures,
                 ok, res, jobs, getJobCalls, destroyRets, destroyWins,
                 deadAtCall, received, written>>
  /\ UNCHANGED clientVars

\* the stats update under c.stats.lock, and return req, pool, true
GetJobStats ==
  /\ pc[Reader] = "getjob_stats"
  /\ stats' = [stats EXCEPT !.reads = @ + 1,
                            !.lastRead = [id |-> pkt.id, opcode |-> pkt.opcode]]
  /\ jobs' = [jobs EXCEPT ![pkt] = @ + 1]
  /\ received' = [received EXCEPT ![pkt] = @ + 1]
  /\ ok' = [ok EXCEPT ![Reader] = "true"]
  /\ pkt' = NoPkt
  /\ pc' = [pc EXCEPT ![Reader] = "idle"]
  /\ UNCHANGED <<closed, serverClosing, sock, wire, logs, connFailures, err,
                 res, getJobCalls, destroyCalls, destroyRets,
                 destroyWins, callDestroys, deadAtCall, written>>
  /\ UNCHANGED clientVars

\* ---- SubmitResult
\* A worker takes a job of this connection, executes it and calls
\* SubmitResult with the response; the packet is built and marshalled
\* (neither can fail).
SubmitResultCall(w) ==
  /\ w \in Writers
  /\ pc[w] = "idle"
  /\ \E q \in Requests :
       /\ jobs[q] > 0
       /\ jobs' = [jobs EXCEPT ![q] = @ - 1]
       /\ res' = [res EXCEPT ![w] = Response(q)]
  /\ ok' = [ok EXCEPT ![w] = "none"]
  /\ err' = [err EXCEPT ![w] = "nil"]
  /\ deadAtCall' = [deadAtCall EXCEPT ![w] = ~IsAlive]
  /\ pc' = [pc EXCEPT ![w] = "submit_write"]
  /\ UNCHANGED <<closed, serverClosing, sock, wire, stats, logs, connFailures,
                 pkt, getJobCalls, destroyCalls, destroyRets, destroyWins,
                 callDestroys, received, written>>
  /\ UNCHANGED clientVars

\* What c.conn.Write(buf) can return: an error on a closed transport; on an
\* open one success or a transport error.
WriteOutcomes == IF sock = "closed" THEN {"closed"} ELSE {"nil", "error"}

\* _, err = c.conn.Write(buf): one Write call carries the whole packet, and
\* the transport takes the bytes of one Write call as a unit.
SubmitResultWrite(w) ==
  /\ w \in Writers
  /\ pc[w] = "submit_write"
  /\ \E e \in WriteOutcomes :
       /\ err' = [err EXCEPT ![w] = e]
       /\ IF e = "nil"
          THEN /\ wire' = wire \o MarshalBinary(RespPacket(res[w]))
               /\ written' = Append(written, res[w])
               /\ pc' = [pc EXCEPT ![w] = "submit_stats"]
          ELSE /\ pc' = [pc EXCEPT ![w] = "fail_log"]
               /\ UNCHANGED <<wire, written>>
  /\ UNCHANGED <<closed, serverClosing, sock, stats, logs, connFailures, ok,
                 pkt, res, jobs, getJobCalls, destroyCalls, destroyRets,
                 destroyWins, callDestroys, deadAtCall, received>>
  /\ UNCHANGED clientVars

\* SubmitResult updating the stats without c.stats.lock: the increment can
\* be lost to, and the opcode stored by, another writer in the same update.
SubmitResultStatsUnlocked(w) ==
  /\ w \in Writers
  /\ pc[w] = "submit_stats"
  /\ \E v \in Writers :
       /\ pc[v] = "submit_stats"
       /\ stats' = [stats EXCEPT
                      !.writes = IF v = w THEN @ + 1 ELSE @,
                      !.lastWrite = [id |-> RespPacket(res[w]).ID,
                                     opcode |-> res[v].reqOpcode]]
  /\ ok' = [ok EXCEPT ![w] = "true"]
  /\ pc' = [pc EXCEPT ![w] = "idle"]
  /\ UNCHANGED <<closed, serverClosing, sock, wire, logs, connFailures, err,
                 pkt, res, jobs, getJobCalls, destroyCalls, destroyRets,
                 destroyWins, callDestroys, deadAtCall, received, written>>
  /\ UNCHANGED clientVars

\* the stats update under c.stats.lock, and return true
SubmitResultStats(w) ==
  /\ w \in Writers
  /\ pc[w] = "submit_stats"
  /\ stats' = [stats EXCEPT !.writes = @ + 1,
                            !.lastWrite = [id |-> RespPacket(res[w]).ID,
                                           opcode |-> res[w].reqOpcode]]
  /\ ok' = [ok EXCEPT ![w] = "true"]
  /\ pc' = [pc EXCEPT ![w] = "idle"]
  /\ UNCHANGED <<closed, serverClosing, sock, wire, logs, connFailures, err,
                 pkt, res, jobs, getJobCalls, destroyCalls, destroyRets,
                 destroyWins, callDestroys, deadAtCall, received, written>>
  /\ UNCHANGED clientVars

\* ================================================================ client
Servers == {"a:1", "b:1"}
SKIs == {"F", "G"}

NoRet == [op |-> "none", arg |-> "", conn |-> 0, err |-> "nil", path |-> ""]

ClientInit ==
  /\ Config = TRUE
  /\ conns = [s \in Servers |-> 0]
  /\ allServers = [k \in SKIs |-> <<>>]
  /\ isOpen = <<>>
  /\ reachable = Servers
  /\ cpc = "idle"
  /\ daSki = ""
  /\ daServers = <<>>
  /\ ret = NoRet
  /\ regBefore = <<>>
  /\ daTried = 0
  /\ registered = [k \in SKIs |-> {}]

\* Dial that never looks into the cache: every call dials, and a new
\* connection replaces the cached one.
DialNoReuse(server) ==
  IF ~Config
  THEN [conns |-> conns, isOpen |-> isOpen, conn |-> 0, err |-> "config",
        path |-> ""]
  ELSE IF server \in reachable
  THEN [conns |-> [conns EXCEPT ![server] = Len(isOpen) + 1],
        isOpen |-> Append(isOpen, TRUE),
        conn |-> Len(isOpen) + 1, err |-> "nil", path |-> "dialed"]
  ELSE [conns |-> [conns EXCEPT ![server] = 0], isOpen |-> isOpen, conn |-> 0,
        err |-> "dial", path |-> ""]

\* Dial that leaves a stale entry in the cache.
DialKeepStale(server) ==
  IF ~Config
  THEN [conns |-> conns, isOpen |-> isOpen, conn |-> 0, err |-> "config",
        path |-> ""]
  ELSE IF conns[server] # 0 /\ isOpen[conns[server]]
  THEN [conns |-> conns, isOpen |-> isOpen, conn |-> conns[server],
        err |-> "nil", path |-> "cached"]
  ELSE IF server \in reachable
  THEN [conns |-> [conns EXCEPT ![server] = Len(isOpen) + 1],
        isOpen |-> Append(isOpen, TRUE),
        conn |-> Len(isOpen) + 1, err |-> "nil", path |-> "dialed"]
  ELSE [conns |-> conns, isOpen |-> isOpen, conn |-> 0, err |-> "dial",
        path |-> ""]

\* Dial(server): the cache, the connections and the result after the call.
Dial(server) ==
  IF ~Config
  THEN [conns |-> conns, isOpen |-> isOpen, conn |-> 0, err |-> "config",
        path |-> ""]
  ELSE IF conns[server] # 0 /\ isOpen[conns[server]]
  THEN [conns |-> conns, isOpen |-> isOpen, conn |-> conns[server],
        err |-> "nil", path |-> "cached"]
  ELSE LET dropped == [conns EXCEPT ![server] = 0]    \* delete(c.conns, server)
       IN  IF server \in reachable                    \* tls.Dial succeeds
           THEN [conns |-> [dropped EXCEPT ![server] = Len(isOpen) + 1],
                 isOpen |-> Append(isOpen, TRUE),
                 conn |-> Len(isOpen) + 1, err |-> "nil", path |-> "dialed"]
           ELSE [conns |-> dropped, isOpen |-> isOpen, conn |-> 0,
                 err |-> "dial", path |-> ""]

\* Dial leaves room for the connection it may create.
CanDial == Len(isOpen) < MaxConns

\* A call of Dial by the client's user.
DialCall(server) ==
  /\ cpc = "idle"
  /\ CanDial
  /\ LET d == Dial(server)
     IN  /\ conns' = d.conns
         /\ isOpen' = d.isOpen
         /\ ret' = [op |-> "Dial", arg |-> server, conn |-> d.conn,
                    err |-> d.err, path |-> d.path]
  /\ regBefore' = <<>>
  /\ daTried' = 0
  /\ UNCHANGED <<Config, allServers, reachable, cpc, daSki, daServers,
                 registered>>
  /\ UNCHANGED connVars

\* registerSKI that skips a server the SKI already lists.
registerSKIOnce(server, ski) ==
  /\ cpc = "idle"
  /\ Len(allServers[ski]) < MaxReg
  /\ allServers' = [allServers EXCEPT
                      ![ski] = IF \E i \in 1..Len(@) : @[i] = server THEN @
                               ELSE Append(@, server)]
  /\ registered' = [registered EXCEPT ![ski] = @ \cup {server}]
  /\ ret' = [op |-> "Register", arg |-> ski, conn |-> 0, err |-> "nil",
             path |-> ""]
  /\ regBefore' = <<>>
  /\ daTried' = 0
  /\ UNCHANGED <<Config, conns, isOpen, reachable, cpc, daSki, daServers>>
  /\ UNCHANGED connVars

\* registerSKI(server, ski), reached through RegisterPublicKey and
\* RegisterCert: c.allServers[ski] = append(c.allServers[ski], server)
registerSKI(server, ski) ==
  /\ cpc = "idle"
  /\ Len(allServers[ski]) < MaxReg
  /\ allServers' = [allServers EXCEPT ![ski] = Append(@, server)]
  /\ registered' = [registered EXCEPT ![ski] = @ \cup {server}]
  /\ ret' = [op |-> "Register", arg |-> ski, conn |-> 0, err |-> "nil",
             path |-> ""]
  /\ regBefore' = <<>>
  /\ daTried' = 0
  /\ UNCHANGED <<Config, conns, isOpen, reachable, cpc, daSki, daServers>>
  /\ UNCHANGED connVars

\* The connections DialAny collects in `existing`: for each registered
\* server, in order, its cache entry when it has one.
RECURSIVE Existing(_)
Existing(servers) ==
  IF servers = <<>> THEN <<>>
  ELSE (IF conns[Head(servers)] # 0 THEN <<conns[Head(servers)]>> ELSE <<>>)
         \o Existing(Tail(servers))

\* DialAny without the test for an empty list: it goes on to the reuse step
\* and the dial loop.
DialAnyCallNoEmptyTest(ski) ==
  /\ cpc = "idle"
  /\ regBefore' = allServers[ski]
  /\ daTried' = 0
  /\ IF Len(Existing(allServers[ski])) > 0
     THEN /\ \E k \in 1..Len(Existing(allServers[ski])) :
               ret' = [op |-> "DialAny", arg |-> ski,
                       conn |-> Existing(allServers[ski])[k], err |-> "nil",
                       path |-> "reuse"]
          /\ UNCHANGED <<cpc, daSki, daServers>>
     ELSE /\ cpc' = "dialany"
          /\ daSki' = ski
          /\ daServers' = allServers[ski]
          /\ ret' = NoRet
  /\ UNCHANGED <<Config, conns, allServers, isOpen, reachable, registered>>
  /\ UNCHANGED connVars

\* DialAny(ski) up to its dial loop: no servers, or an existing connection
\* chosen at random, or the loop is entered with servers := c.allServers[ski].
DialAnyCall(ski) ==
  /\ cpc = "idle"
  /\ regBefore' = allServers[ski]
  /\ daTried' = 0
  /\ IF Len(allServers[ski]) = 0
     THEN /\ ret' = [op |-> "DialAny", arg |-> ski, conn |-> 0,
                     err |-> "no servers given", path |-> ""]
          /\ UNCHANGED <<cpc, daSki, daServers>>
     ELSE IF Len(Existing(allServers[ski])) > 0
     THEN /\ \E k \in 1..Len(Existing(allServers[ski])) :
               ret' = [op |-> "DialAny", arg |-> ski,
                       conn |-> Existing(allServers[ski])[k], err |-> "nil",
                       path |-> "reuse"]
          /\ UNCHANGED <<cpc, daSki, daServers>>
     ELSE /\ cpc' = "dialany"
          /\ daSki' = ski
          /\ daServers' = allServers[ski]
          /\ ret' = NoRet
  /\ UNCHANGED <<Config, conns, allServers, isOpen, reachable, registered>>
  /\ UNCHANGED connVars

\* The removal that removes nothing: the loop keeps every candidate.
SliceKept(servers, n) == servers

\* servers = append(servers[:n], servers[n+1:]...): the slice it returns.
SliceRemove(servers, n) ==
  SubSeq(servers, 1, n) \o SubSeq(servers, n + 2, Len(servers))

\* The removal assigned back to the registry: c.allServers[ski] = append(...).
RegistryShrunk(reg, n, len) ==
  SliceRemove(SubSeq(reg, 1, len), n) \o SubSeq(reg, len + 1, Len(reg))

\* The same statement seen through the registry's slice reg, which shares its
\* array with `servers` (of length len): append shifts servers[n+1:] one
\* place down inside that array; reg keeps its length.
RegistryAfterRemove(reg, n, len) ==
  [i \in 1..Len(reg) |-> IF i >= n + 1 /\ i <= len - 1 THEN reg[i + 1]
                         ELSE reg[i]]

\* One round of DialAny's loop: n := rand.Intn(len(servers)), Dial, and on
\* an error the removal of servers[n].
DialAnyTry ==
  /\ cpc = "dialany"
  /\ Len(daServers) > 0
  /\ CanDial
  /\ \E n \in 0..(Len(daServers) - 1) :
       LET d == Dial(daServers[n + 1])
       IN  /\ daTried' = daTried + 1
           /\ conns' = d.conns
           /\ isOpen' = d.isOpen
           /\ IF d.err = "nil"
              THEN /\ ret' = [op |-> "DialAny", arg |-> daSki,
                              conn |-> d.conn, err |-> "nil",
                              path |-> "dialed"]
                   /\ cpc' = "idle"
                   /\ daSki' = ""
                   /\ daServers' = <<>>
                   /\ UNCHANGED allServers
              ELSE /\ allServers' =
                        [allServers EXCEPT
                           ![daSki] = RegistryAfterRemove(@, n, Len(daServers))]
                   /\ daServers' = SliceRemove(daServers, n)
                   /\ UNCHANGED <<ret, cpc, daSki>>
  /\ UNCHANGED <<Config, reachable, regBefore, registered>>
  /\ UNCHANGED connVars

\* The loop ends with no server left to try.
DialAnyFail ==
  /\ cpc = "dialany"
  /\ Len(daServers) = 0
  /\ ret' = [op |-> "DialAny", arg |-> daSki, conn |-> 0,
             err |-> "couldn't dial any of the servers given", path |-> ""]
  /\ cpc' = "idle"
  /\ daSki' = ""
  /\ UNCHANGED <<Config, conns, allServers, isOpen, reachable, daServers,
                 regBefore, daTried, registered>>
  /\ UNCHANGED connVars

\* ---- the client's surroundings, between two calls
\* A server becomes reachable or unreachable.
SetReachable(server) ==
  /\ cpc = "idle"
  /\ reachable' = IF server \in reachable THEN reachable \ {server}
                  ELSE reachable \cup {server}
  /\ ret' = NoRet
  /\ regBefore' = <<>>
  /\ daTried' = 0
  /\ UNCHANGED <<Config, conns, allServers, isOpen, cpc, daSki, daServers,
                 registered>>
  /\ UNCHANGED connVars

\* A connection is closed (by its user or its peer): IsOpen becomes false.
ConnClose(i) ==
  /\ cpc = "idle"
  /\ i \in 1..Len(isOpen)
  /\ isOpen[i]
  /\ isOpen' = [isOpen EXCEPT ![i] = FALSE]
  /\ ret' = NoRet
  /\ regBefore' = <<>>
  /\ daTried' = 0
  /\ UNCHANGED <<Config, conns, allServers, reachable, cpc, daSki, daServers,
                 registered>>
  /\ UNCHANGED connVars

ClientNext ==
  \/ \E server \in Servers : DialCall(server)
  \/ \E server \in Servers, ski \in SKIs : registerSKI(server, ski)
  \/ \E ski \in SKIs : DialAnyCall(ski)
  \/ DialAnyTry
  \/ DialAnyFail
  \/ \E server \in Servers : SetReachable(server)
  \/ \E i \in 1..MaxConns : ConnClose(i)

Init == ConnInit /\ ClientInit

ClientSpec == Init /\ [][ClientNext]_vars

\* A DialAny call runs on its caller's goroutine: a loop iteration that can
\* run, and the return after the loop, are eventually executed.
ClientFairSpec ==
  /\ Init
  /\ [][ClientNext]_vars
  /\ WF_vars(DialAnyTry)
  /\ WF_vars(DialAnyFail)

Next ==
  \/ GetJobCall
  \/ GetJobRead
  \/ GetJobStats
  \/ \E w \in Writers : SubmitResultCall(w)
  \/ \E w \in Writers : SubmitResultWrite(w)
  \/ \E w \in Writers : SubmitResultStats(w)
  \/ \E d \in Destroyers : DestroyCall(d)
  \/ \E t \in Threads : DestroyCAS(t)
  \/ \E t \in Threads : DestroyLog(t)
  \/ \E t \in Threads : DestroyClose(t)
  \/ \E t \in Threads : DestroyStore(t)
  \/ \E t \in Threads : FailLog(t)
  \/ \E t \in Threads : FailEmit(t)
  \/ \E t \in Threads : FailLine(t)
  \/ \E t \in Threads : FailClose(t)
  \/ \E t \in Threads : FailStore(t)

Spec == Init /\ [][Next]_vars

\* The steps a goroutine takes inside a call it has made. The scheduler runs
\* every runnable goroutine, and a read returns at its deadline at the latest.
Proceed(t) ==
  \/ DestroyCAS(t) \/ DestroyLog(t) \/ DestroyClose(t) \/ DestroyStore(t)
  \/ FailLog(t) \/ FailEmit(t) \/ FailLine(t)
  \/ FailClose(t) \/ FailStore(t)
  \/ (t = Reader /\ (GetJobRead \/ GetJobStats))
  \/ SubmitResultWrite(t) \/ SubmitResultStats(t)

FairSpec == Init /\ [][Next]_vars /\ \A t \in Threads : WF_vars(Proceed(t))

\* ================================================================ claims
InDestroy(t) == pc[t] \in {"destroy_log", "destroy_close", "destroy_store"}

AllDestroyReturned == destroyCalls >= 1 /\ destroyRets = destroyCalls

\* C1: of any number of Destroy calls exactly one wins the compare-and-swap
\* and logs "server closing", the others go no further than the
\* compare-and-swap, and once every call has returned the transport is
\* closed and IsAlive() is false.
C1_DestroyOnce ==
  /\ destroyWins <= 1
  /\ logs.closing <= destroyWins
  /\ Cardinality({t \in Threads : InDestroy(t)}) <= destroyWins
  /\ AllDestroyReturned =>
       /\ destroyWins = 1
       /\ logs.closing = 1
       /\ sock = "closed"
       /\ ~IsAlive

C1_Witness == destroyCalls >= 2 /\ destroyRets = destroyCalls

\* C2: serverClosing never goes back from 1 to 0, closed never goes back
\* from 1 to 0, and both only ever hold 0 or 1.
C2_FlagsMonotonic ==
  [][/\ serverClosing' \in {0, 1}
     /\ closed' \in {0, 1}
     /\ serverClosing = 1 => serverClosing' = 1
     /\ closed = 1 => closed' = 1]_vars

C2_Witness ==
  /\ serverClosing = 1
  /\ closed = 1
  /\ \E t \in Threads : pc[t] = "fail_store"

\* The frames on the wire are the responses written, in the order written.
WireFrames == ReadFrames(wire)

\* C3: the connection itself serializes the frame writes of concurrent
\* SubmitResult calls, so at most one worker is in the write to the transport
\* at a time, and the frames on the wire are whole.
C3_ConnSerializesWrites ==
  /\ Cardinality({w \in Writers : pc[w] = "submit_write"}) <= 1
  /\ WireFrames.rest = <<>>

TimeoutReturned == err[Reader] = "timeout" /\ pc[Reader] = "idle"

\* C4: a GetJob whose read times out calls Destroy exactly once and returns
\* ok=false with the connection in server-initiated closing; none of its
\* steps logs an error or a peer close or counts a failure; and alive
\* becomes false.
C4_IdleTimeout ==
  /\ [](TimeoutReturned =>
          /\ ok[Reader] = "false"
          /\ callDestroys = 1
          /\ serverClosing = 1)
  /\ [][(err'[Reader] = "timeout" /\ pc'[Reader] # pc[Reader]) =>
          /\ logs'.error = logs.error
          /\ logs'.eof = logs.eof
          /\ connFailures' = connFailures]_vars
  /\ [][(err[Reader] = "timeout" /\ pc[Reader] # "idle"
           /\ pc'[Reader] = "idle") => TimeoutReturned']_vars
  /\ (err[Reader] = "timeout") ~> (pc[Reader] = "idle" /\ closed = 1)

C4_Witness == TimeoutReturned /\ closed = 1 /\ destroyCalls = 2

\* C5: once IsAlive() is false, which it is as soon as the winning Destroy
\* or a failed GetJob or SubmitResult has returned, the transport is closed,
\* and a SubmitResult called from then on writes nothing, leaves the writes
\* counter alone and returns false.
C5_SubmitAfterClose ==
  /\ closed = 1 => sock = "closed"
  /\ (destroyWins = 1 /\ \A t \in Threads : ~InDestroy(t)) => closed = 1
  /\ \A t \in {Reader} \cup Writers :
       (pc[t] = "idle" /\ ok[t] = "false" /\ err[t] # "timeout") => closed = 1
  /\ \A w \in Writers :
       deadAtCall[w] =>
         /\ pc[w] \in {"submit_write", "fail_log", "fail_emit", "fail_line",
                       "fail_close", "fail_store", "idle"}
         /\ pc[w] # "submit_write" => err[w] = "closed"
         /\ ok[w] # "true"

C5_Witness ==
  \E w \in Writers : deadAtCall[w] /\ pc[w] = "idle" /\ ok[w] = "false"

\* How many frames on the wire answer request q.
RECURSIVE CountFrames(_, _)
CountFrames(frames, q) ==
  IF frames = <<>> THEN 0
  ELSE (IF Head(frames).ID = q.id /\ Head(frames).Operation.opcode = q.opcode
        THEN 1 ELSE 0) + CountFrames(Tail(frames), q)

\* C6: every packet written carries the ID of the Result it was written
\* for, in whatever order the results complete, and no more packets carry a
\* request's ID and opcode than GetJob has returned requests with them.
C6_CorrelationID ==
  /\ Len(WireFrames.frames) = Len(written)
  /\ \A i \in 1..Len(written) : WireFrames.frames[i].ID = written[i].id
  /\ \A w \in Writers :
       pc[w] \in {"submit_write", "submit_stats"} =>
         /\ RespPacket(res[w]).ID = res[w].id
         /\ received[[id |-> res[w].id, opcode |-> res[w].reqOpcode]] > 0
  /\ \A q \in Requests : CountFrames(WireFrames.frames, q) <= received[q]

\* the response to the request read last was written first
C6_Witness ==
  /\ stats.reads = 2
  /\ Len(written) = 2
  /\ written[1].id = stats.lastRead.id
  /\ written[2].id # written[1].id

DialAnyFailed ==
  /\ ret.op = "DialAny"
  /\ ret.err = "couldn't dial any of the servers given"

\* C7 (as claimed): DialAny fails with no reachable server only when every
\* server registered for the SKI is unreachable, and a connection it dials
\* is one to a reachable server registered for the SKI.
C7_ReachableServerFound ==
  /\ DialAnyFailed => registered[ret.arg] \cap reachable = {}
  /\ (ret.op = "DialAny" /\ ret.path = "dialed") =>
       \E server \in registered[ret.arg] \cap reachable :
         conns[server] = ret.conn

\* C8 (as claimed): the registry's list for the SKI is the same, in content
\* and order, during and after a DialAny call as before it.
C8_RegistryUntouched ==
  /\ cpc = "dialany" => allServers[daSki] = regBefore
  /\ ret.op = "DialAny" => allServers[ret.arg] = regBefore

\* C9: a DialAny call fails with "couldn't dial any" exactly when a Dial of
\* every candidate has failed, and the registry's list for the SKI is then
\* as long as before the call (as it is throughout the call).
C9_ExhaustedKeepsLength ==
  /\ cpc = "dialany" =>
       /\ Len(allServers[daSki]) = Len(regBefore)
       /\ Len(daServers) + daTried = Len(regBefore)
  /\ DialAnyFailed =>
       /\ Len(allServers[ret.arg]) = Len(regBefore)
       /\ daTried = Len(regBefore)
       /\ Len(regBefore) > 0

C9_Witness == DialAnyFailed /\ Len(regBefore) >= 2

\* The servers in a slice.
Range(servers) == {servers[i] : i \in 1..Len(servers)}

\* C10 (as claimed): a connection DialAny returns through the reuse path is
\* open and is the cached connection of a server registered for the SKI.
C10_ReuseIsOpen ==
  (ret.op = "DialAny" /\ ret.path = "reuse") =>
    /\ isOpen[ret.conn]
    /\ \E server \in Range(allServers[ret.arg]) : conns[server] = ret.conn

NoServers == ret.op = "DialAny" /\ ret.err = "no servers given"

\* C11: DialAny for an SKI with no registered server returns "no servers
\* given" at once: it makes no Dial call, never enters the dial loop, and
\* the step that returns the error leaves the cache, the connections and the
\* registry as they were; it returns that error for no other SKI.
C11_NoServers ==
  /\ [](NoServers => cpc = "idle" /\ regBefore = <<>> /\ daTried = 0)
  /\ []((ret.op = "DialAny" /\ regBefore = <<>>) => NoServers)
  /\ [](cpc = "dialany" => regBefore # <<>>)
  /\ [][NoServers' =>
          /\ conns' = conns
          /\ isOpen' = isOpen
          /\ allServers' = allServers
          /\ Len(allServers[ret'.arg]) = 0]_vars

\* the error is returned while the other SKI has a server and a connection
C11_Witness ==
  /\ NoServers
  /\ \E k \in SKIs : allServers[k] # <<>>
  /\ \E server \in Servers : conns[server] # 0

\* C12: a Dial of a server whose cached connection is open returns that
\* connection without dialing: no connection is created and the cache keeps
\* its entry; so of two Dial calls in a row for one server only the first
\* can have dialed.
C12_DialReuses ==
  /\ [][(ret'.op = "Dial" /\ conns[ret'.arg] # 0 /\ isOpen[conns[ret'.arg]]) =>
          /\ ret'.conn = conns[ret'.arg]
          /\ ret'.err = "nil"
          /\ conns' = conns
          /\ isOpen' = isOpen]_vars
  /\ [][(ret.op = "Dial" /\ ret.err = "nil" /\ ret'.op = "Dial"
           /\ ret'.arg = ret.arg) =>
          /\ ret'.conn = ret.conn
          /\ Len(isOpen') = Len(isOpen)
          /\ conns' = conns
          /\ (ret' # ret => ret'.path = "cached")]_vars
  /\ [](ret.op = "Dial" /\ ret.path = "cached" =>
          conns[ret.arg] = ret.conn /\ isOpen[ret.conn])

C12_Witness ==
  /\ ret.op = "Dial"
  /\ ret.path = "cached"
  /\ Len(isOpen) = 1

\* C13: a successful Dial returns an open connection that is the cache's
\* entry for the server, a failed Dial returns no connection and leaves the
\* cache without an entry for the server; a Dial that finds a stale entry
\* drops it, and caches a newly created connection in its place when the
\* dial succeeds.
C13_DialOpenOrNone ==
  /\ []((ret.op = "Dial" /\ ret.err = "nil") =>
          /\ ret.conn # 0
          /\ isOpen[ret.conn]
          /\ conns[ret.arg] = ret.conn)
  /\ []((ret.op = "Dial" /\ ret.err # "nil") =>
          /\ ret.conn = 0
          /\ conns[ret.arg] = 0)
  /\ [][(ret'.op = "Dial" /\ conns[ret'.arg] # 0 /\ ~isOpen[conns[ret'.arg]]) =>
          /\ conns'[ret'.arg] # conns[ret'.arg]
          /\ \A server \in Servers \ {ret'.arg} : conns'[server] = conns[server]
          /\ IF ret'.arg \in reachable
             THEN /\ ret'.conn = Len(isOpen) + 1
                  /\ isOpen' = Append(isOpen, TRUE)
                  /\ ret'.path = "dialed"
             ELSE /\ ret'.err = "dial"
                  /\ isOpen' = isOpen]_vars

\* a Dial has failed after dropping the stale entry of the one connection
\* made so far
C13_Witness ==
  /\ ret.op = "Dial"
  /\ ret.err = "dial"
  /\ Len(isOpen) = 1
  /\ ~isOpen[1]
  /\ \A server \in Servers : conns[server] = 0

\* C14: no step makes a list of the registry shorter; a registration appends
\* its server to the end of its SKI's list, also when the list holds that
\* server already, and changes no other list; and outside DialAny's dial
\* loop the registry changes in no other way.
C14_RegistryGrows ==
  [][/\ \A k \in SKIs : Len(allServers'[k]) >= Len(allServers[k])
     /\ ((ret'.op = "Register" /\ ret' # ret)
           \/ (allServers' # allServers /\ cpc = "idle")) =>
          /\ ret'.op = "Register"
          /\ \E server \in Servers :
               /\ allServers' =
                    [allServers EXCEPT ![ret'.arg] = Append(@, server)]
               /\ server \in registered'[ret'.arg]]_vars

\* one server has been registered twice for an SKI
C14_Witness ==
  /\ ret.op = "Register"
  /\ Len(allServers[ret.arg]) = 2
  /\ Cardinality(registered[ret.arg]) = 1
  /\ allServers[ret.arg][1] = allServers[ret.arg][2]

\* C20: a DialAny call that reaches its dial loop makes at most one Dial
\* call per entry the SKI had; a failed Dial shortens the working slice by
\* exactly one entry and keeps the loop going, a successful one ends the
\* call with that connection; the call ends with "couldn't dial any" only
\* with the working slice empty; in the loop one of the two steps that end
\* or shorten it can always be taken, and the call returns (while a
\* connection can still be made).
C20_DialAnyTerminates ==
  /\ (cpc = "dialany" /\ CanDial) ~> (cpc = "idle" /\ ret.op = "DialAny")
  /\ [](daTried <= Len(regBefore))
  /\ [](cpc = "dialany" =>
          /\ Len(daServers) = Len(regBefore) - daTried
          /\ Len(daServers) = 0 => ENABLED DialAnyFail
          /\ (Len(daServers) > 0 /\ CanDial) => ENABLED DialAnyTry)
  /\ [][(cpc = "dialany" /\ daTried' # daTried) =>
          /\ daTried' = daTried + 1
          /\ \/ /\ cpc' = "idle"
                /\ ret'.op = "DialAny"
                /\ ret'.err = "nil"
                /\ ret'.conn # 0
                /\ isOpen'[ret'.conn]
             \/ /\ cpc' = "dialany"
                /\ Len(daServers') = Len(daServers) - 1
                /\ isOpen' = isOpen]_vars
  /\ [][(cpc = "dialany" /\ cpc' = "idle" /\ ret'.err # "nil") =>
          /\ daServers = <<>>
          /\ daTried' = daTried
          /\ DialAnyFailed']_vars

\* the second Dial of a call succeeds after the first has failed
C20_Witness ==
  /\ ret.op = "DialAny"
  /\ ret.path = "dialed"
  /\ daTried = 2

\* C15: once Destroy has won the CAS (serverClosing = 1), a call of
\* LogConnErr with a non-nil error, by the reader in GetJob or by a writer in
\* SubmitResult, returns at its test of serverClosing: it emits no log line
\* and leaves the failure metric alone. Only a call that made its test
\* before the CAS goes on to count a failure or to log.
C15_ClosingSuppressesErrors ==
  [][\A t \in Threads :
       /\ (serverClosing = 1 /\ pc[t] = "fail_log" /\ pc'[t] # "fail_log") =>
            /\ err[t] # "nil"
            /\ pc'[t] = "fail_close"
            /\ logs' = logs
            /\ connFailures' = connFailures
       /\ (pc'[t] = "fail_emit" /\ pc[t] # "fail_emit") =>
            /\ pc[t] = "fail_log"
            /\ serverClosing = 0
       /\ (pc'[t] = "fail_line" /\ pc[t] # "fail_line") => pc[t] = "fail_emit"
       /\ ~(\E u \in Threads : pc[u] \in {"fail_emit", "fail_line"}) =>
            /\ logs'.eof = logs.eof
            /\ logs'.error = logs.error
            /\ connFailures' = connFailures]_vars

\* a writer's and the reader's errors both arrive after the CAS and nothing
\* but "server closing" has been logged
C15_Witness ==
  /\ serverClosing = 1
  /\ pc[Reader] \in {"fail_close", "fail_store"}
  /\ \E w \in Writers : pc[w] \in {"fail_close", "fail_store"}
  /\ logs.eof = 0
  /\ logs.error = 0
  /\ connFailures = 0

\* C16: when Destroy closes the transport under a reader that waits in
\* pkt.ReadFrom, the reader's GetJob call eventually returns ok = false with
\* the connection marked closed, and the read error of the closed transport
\* is passed to LogConnErr without a log line or a counted failure.
C16_DestroyUnblocksReader ==
  /\ (pc[Reader] = "getjob_read" /\ serverClosing = 1 /\ sock = "closed") ~>
       (pc[Reader] = "idle" /\ ok[Reader] = "false" /\ err[Reader] = "closed"
          /\ closed = 1)
  /\ [][(pc[Reader] = "getjob_read" /\ serverClosing = 1 /\ sock = "closed"
           /\ pc'[Reader] # "getjob_read") =>
          /\ pc'[Reader] = "fail_log"
          /\ err'[Reader] = "closed"]_vars
  /\ [][(pc[Reader] = "fail_log" /\ err[Reader] = "closed" /\ serverClosing = 1
           /\ pc'[Reader] # "fail_log") =>
          /\ pc'[Reader] = "fail_close"
          /\ logs' = logs
          /\ connFailures' = connFailures]_vars

\* the shutdown goroutine's Destroy has returned and the reader is still in
\* its read
C16_Witness ==
  /\ pc[Reader] = "getjob_read"
  /\ sock = "closed"
  /\ serverClosing = 1
  /\ closed = 1
  /\ destroyWins = 1
  /\ destroyRets = destroyCalls
  /\ \A d \in Destroyers : pc[d] = "done"
  /\ \A w \in Writers : pc[w] = "idle"

\* C17: over the life of a connection at most one closure event is logged
\* ("server closing", "closed by client" or an error) and at most one
\* failure is counted.
C17_OneClosureEvent ==
  /\ logs.closing + logs.eof + logs.error <= 1
  /\ connFailures <= 1

\* C18 as stated: whenever a call of Destroy has returned, winner or not,
\* IsAlive() is false and the transport is closed.
C18_ReturnedMeansClosed ==
  destroyRets >= 1 => ~IsAlive /\ sock = "closed"

\* C18, amended: whenever a call of Destroy has returned the closing flag is
\* set and exactly one call has won the compare-and-swap; IsAlive() is false
\* and the transport is closed once the winning call is no longer between
\* its compare-and-swap and its return, and the return of the winning call
\* itself leaves both so.
C18_WinnerReturnedMeansClosed ==
  /\ [](destroyRets >= 1 =>
          /\ serverClosing = 1
          /\ destroyWins = 1
          /\ (\A t \in Threads : ~InDestroy(t)) => ~IsAlive /\ sock = "closed")
  /\ [][\A t \in Threads :
          (pc[t] = "destroy_store" /\ pc'[t] # "destroy_store") =>
            /\ destroyRets' = destroyRets + 1
            /\ ~IsAlive'
            /\ sock' = "closed"]_vars

\* the reader's Destroy on a timeout has returned as a no-op while the
\* shutdown goroutine's call, the winner, is about to close the transport
C18_Witness ==
  /\ destroyRets = 1
  /\ callDestroys = 1
  /\ pc[Reader] = "idle"
  /\ ok[Reader] = "false"
  /\ \E d \in Destroyers : pc[d] = "destroy_close"
  /\ IsAlive
  /\ sock = "open"

RECURSIVE SumOver(_, _)
SumOver(f, S) ==
  IF S = {} THEN 0
  ELSE LET x == CHOOSE y \in S : TRUE IN f[x] + SumOver(f, S \ {x})

InStatsUpdate == {w \in Writers : pc[w] = "submit_stats"}

\* C19: with one reader and several writers the stats are exact: reads is
\* the number of GetJob calls that returned ok = true, writes the number of
\* SubmitResult calls that returned true (every call that has written and
\* not yet returned is still to be counted), each such return adds exactly
\* one, and lastRead / lastWrite are the id and opcode of one request read /
\* one response written.
C19_StatsExact ==
  /\ [](/\ stats.reads = SumOver(received, Requests)
        /\ stats.writes + Cardinality(InStatsUpdate) = Len(written)
        /\ IF stats.reads = 0
           THEN stats.lastRead = NoEvent
           ELSE stats.lastRead \in Requests /\ received[stats.lastRead] > 0
        /\ IF stats.writes = 0
           THEN stats.lastWrite = NoEvent
           ELSE \E i \in 1..Len(written) :
                  stats.lastWrite = [id |-> written[i].id,
                                     opcode |-> written[i].reqOpcode])
  /\ [][/\ stats'.reads # stats.reads <=>
             (pc[Reader] = "getjob_stats" /\ pc'[Reader] = "idle"
                /\ ok'[Reader] = "true")
        /\ stats'.reads # stats.reads =>
             /\ stats'.reads = stats.reads + 1
             /\ stats'.lastRead = [id |-> pkt.id, opcode |-> pkt.opcode]
        /\ stats'.writes # stats.writes <=>
             \E w \in Writers : /\ pc[w] = "submit_stats"
                                /\ pc'[w] = "idle"
                                /\ ok'[w] = "true"
        /\ \A w \in Writers :
             (pc[w] = "submit_stats" /\ pc'[w] = "idle") =>
               /\ stats'.writes = stats.writes + 1
               /\ stats'.lastWrite = [id |-> res[w].id,
                                      opcode |-> res[w].reqOpcode]]_vars

\* two writers are past their Write together and the one that wrote second
\* has updated the stats first
C19_Witness ==
  /\ Len(written) = 2
  /\ written[1].id # written[2].id
  /\ stats.writes = 1
  /\ stats.reads = 2
  /\ Cardinality(InStatsUpdate) = 1
  /\ stats.lastWrite = [id |-> written[2].id, opcode |-> written[2].reqOpcode]

====
